---- MODULE Spec2Model ----
(***************************************************************************)
(* Model of src/utility.py: split_geometry (the ring splitter) and         *)
(* build_multipolygon (per-area polygon construction, orientation,         *)
(* validity repair and combination into the zone geometry).                *)
(*                                                                         *)
(* Geometry values are records [type, shell, holes, geoms]:                *)
(*   Polygon      shell = closed exterior ring, holes = closed rings       *)
(*   LineString   shell = its coordinates;  Point  shell = <<p>>           *)
(*   MultiPolygon / GeometryCollection   geoms = the members               *)
(*   None         the Python None;  ValueError / TypeError  a raised       *)
(*                exception leaving build_multipolygon                     *)
(* A point is <<x, y>>; a row of the dataframe is                          *)
(* [areanumber, seqno, x, y].                                              *)
(***************************************************************************)
EXTENDS Integers, Sequences, FiniteSets, TLC

VARIABLES
    group_df,   \* the rows handed to build_multipolygon, in dataframe order
    other_df,   \* the rows of the caller's next invocation (same records)
    tie_break,  \* how this build's sort orders rows of equal seqno
    pc,         \* "call", "loop", "done" (returned), "raised" (exception)
    groups,     \* area numbers the groupby loop still has to visit
    polygons,   \* the local list `polygons`
    result,     \* the value returned, or the exception raised
    steps,      \* per visited area: what each line of the loop body computed
    lib_log,    \* answers the geometry library has given so far
    prev,       \* outcome of the caller's previous invocation
    split_out   \* what a direct call of split_geometry returned

vars == <<group_df, other_df, tie_break, pc, groups, polygons, result,
          steps, lib_log, prev, split_out>>

----------------------------------------------------------------------------
(* Bounds of the instances *)

MaxLen == 4      \* longest point sequence of the single-area instances
MaxAreas == 2    \* most area groups in a zone
MaxRings == 3    \* most rings in a zone (over all its areas)
MaxRows == 3     \* most rows of a reordered zone

----------------------------------------------------------------------------
(* Generic sequence helpers *)

RECURSIVE Reverse(_)
Reverse(s) == IF s = <<>> THEN <<>> ELSE Append(Reverse(Tail(s)), Head(s))

RECURSIVE Flatten(_)
Flatten(ss) == IF ss = <<>> THEN <<>> ELSE Head(ss) \o Flatten(Tail(ss))

RECURSIVE SortedSeq(_)
SortedSeq(S) ==
    IF S = {} THEN <<>>
    ELSE LET m == CHOOSE x \in S : \A y \in S : x <= y
         IN <<m>> \o SortedSeq(S \ {m})

Range(s) == {s[i] : i \in 1..Len(s)}

SeqsUpTo(S, n) == UNION {[1..k -> S] : k \in 0..n}

----------------------------------------------------------------------------
(* Geometry values *)

Geom(t, sh, hs, gs) == [type |-> t, shell |-> sh, holes |-> hs, geoms |-> gs]

None == Geom("None", <<>>, <<>>, <<>>)
EmptyPolygon == Geom("Polygon", <<>>, <<>>, <<>>)
PolygonOf(sh, hs) == Geom("Polygon", sh, hs, <<>>)
LineStringOf(cs) == Geom("LineString", cs, <<>>, <<>>)
PointOf(p) == Geom("Point", <<p>>, <<>>, <<>>)
MultiPolygonOf(gs) == Geom("MultiPolygon", <<>>, <<>>, gs)
GeometryCollectionOf(gs) == Geom("GeometryCollection", <<>>, <<>>, gs)
Raised(t) == Geom(t, <<>>, <<>>, <<>>)

\* geom.is_empty
is_empty(g) ==
    /\ g.shell = <<>>
    /\ \A i \in 1..Len(g.geoms) : g.geoms[i].shell = <<>> /\ g.geoms[i].geoms = <<>>

\* isinstance(geom, (Polygon, MultiPolygon))
IsPolygonal(g) == g.type \in {"Polygon", "MultiPolygon"}

----------------------------------------------------------------------------
(* split_geometry *)

Sentinel == <<0, 0>>

\* (x, y) == (0, 0), with a column tested alone as a slip would test it
IsSentinelXOnly(p) == p[1] = 0

IsSentinel(p) == p = Sentinel

\* df[['x', 'y']].values.tolist()
CoordsOf(rows) == [i \in 1..Len(rows) |-> <<rows[i].x, rows[i].y>>]

\* The scan: state is the pair (parts, current) after the points read so far.
RECURSIVE Scan(_, _, _)
Scan(coords, parts, current) ==
    IF coords = <<>>
    THEN IF current # <<>> THEN Append(parts, current) ELSE parts
    ELSE IF IsSentinel(Head(coords))
         THEN IF current # <<>>
              THEN Scan(Tail(coords), Append(parts, current), <<>>)
              ELSE Scan(Tail(coords), parts, current)
         ELSE Scan(Tail(coords), parts, Append(current, Head(coords)))

\* the scan without its last two lines: a ring not closed by (0,0) is lost
SplitPartsNoFlush(coords) ==
    LET parts == Scan(coords, <<>>, <<>>)
    IN IF coords # <<>> /\ ~IsSentinel(coords[Len(coords)])
       THEN SubSeq(parts, 1, Len(parts) - 1)
       ELSE parts

SplitParts(coords) == Scan(coords, <<>>, <<>>)

\* parts[-1] taken for the exterior, as an off-by-one slip would
PartsResultLastExterior(parts) ==
    [none |-> FALSE,
     exterior |-> parts[Len(parts)],
     holes |-> IF Len(parts) > 1 THEN SubSeq(parts, 1, Len(parts) - 1) ELSE <<>>]

NoParts == [none |-> TRUE, exterior |-> <<>>, holes |-> <<>>]

PartsResult(parts) ==
    [none |-> FALSE,
     exterior |-> parts[1],
     holes |-> IF Len(parts) > 1 THEN SubSeq(parts, 2, Len(parts)) ELSE <<>>]

split_geometry(coords) ==
    LET parts == SplitParts(coords)
    IN IF parts = <<>> THEN NoParts ELSE PartsResult(parts)

----------------------------------------------------------------------------
(* pandas: groupby('areanumber') and sort_values('seqno') *)

\* groupby iterates its keys in ascending order
GroupKeys(rows) == SortedSeq({rows[i].areanumber : i \in 1..Len(rows)})

\* a group keeps its rows in dataframe order
InArea(rows, a) == LET keep(r) == r.areanumber = a IN SelectSeq(rows, keep)

\* Rows of equal seqno: the default sort kind is not stable, so a build either
\* keeps them in dataframe order ("keep") or not ("flip").
TiePolicies == {"keep", "flip"}

RECURSIVE SortByKeys(_, _, _)
SortByKeys(rows, keys, tie) ==
    IF keys = <<>> THEN <<>>
    ELSE LET same(r) == r.seqno = Head(keys)
             run == SelectSeq(rows, same)
         IN (IF tie = "keep" THEN run ELSE Reverse(run))
            \o SortByKeys(rows, Tail(keys), tie)

\* the rows left in dataframe order, as if the sort were missing
sort_values_missing(rows, tie) == rows

sort_values(rows, tie) ==
    SortByKeys(rows, SortedSeq({rows[i].seqno : i \in 1..Len(rows)}), tie)

----------------------------------------------------------------------------
(* shapely: construction, orientation, validity, repair, combination *)

\* LinearRing closes an open ring; a ring of exactly 3 coordinates always
\* gets its first coordinate appended.
CloseRing(r) ==
    IF Len(r) = 3 \/ r[1] # r[Len(r)] THEN Append(r, r[1]) ELSE r

\* Polygon(exterior, holes=holes), shapely 2: a ring of fewer than 3
\* coordinates raises ValueError ("A linearring requires at least 4
\* coordinates"), any other ring is closed and accepted.
PolygonCtor(exterior, holes) ==
    LET rings == <<exterior>> \o holes
    IN IF \E i \in 1..Len(rings) : Len(rings[i]) < 3
       THEN Raised("ValueError")
       ELSE PolygonOf(CloseRing(exterior),
                      [i \in 1..Len(holes) |-> CloseRing(holes[i])])

\* twice the signed area of a closed ring (shoelace); positive = counter-clockwise
RECURSIVE Shoelace(_, _)
Shoelace(ring, i) ==
    IF i >= Len(ring) THEN 0
    ELSE ring[i][1] * ring[i + 1][2] - ring[i + 1][1] * ring[i][2]
         + Shoelace(ring, i + 1)

SignedArea2(ring) == Shoelace(ring, 1)

\* orient(poly, sign=1.0): exterior counter-clockwise, interiors clockwise
orient(poly) ==
    PolygonOf(IF SignedArea2(poly.shell) >= 0 THEN poly.shell
              ELSE Reverse(poly.shell),
              [i \in 1..Len(poly.holes) |->
                  IF SignedArea2(poly.holes[i]) <= 0 THEN poly.holes[i]
                  ELSE Reverse(poly.holes[i])])

\* A ring whatever vertex it starts at and whichever way it runs: the least,
\* in dictionary order, of its rotations and their reverses.
PointLess(p, q) == p[1] < q[1] \/ (p[1] = q[1] /\ p[2] < q[2])

RECURSIVE RingLeq(_, _)
RingLeq(s, t) ==
    IF s = <<>> THEN TRUE
    ELSE IF Head(s) = Head(t) THEN RingLeq(Tail(s), Tail(t))
    ELSE PointLess(Head(s), Head(t))

RingKey(ring) ==
    LET open == SubSeq(ring, 1, Len(ring) - 1)
        n == Len(open)
        rot(s) == {[i \in 1..n |-> s[((i + k - 1) % n) + 1]] : k \in 0..(n - 1)}
        all == rot(open) \cup rot(Reverse(open))
    IN CHOOSE v \in all : \A w \in all : RingLeq(v, w)

PolygonKey(poly) ==
    [shell |-> RingKey(poly.shell),
     holes |-> [i \in 1..Len(poly.holes) |-> RingKey(poly.holes[i])]]

\* twice the signed area of the triangle p, q, r
Cross(p, q, r) == (q[1] - p[1]) * (r[2] - p[2]) - (r[1] - p[1]) * (q[2] - p[2])

\* every three coordinates of the exterior are collinear
Collapsed(poly) ==
    \A i, j, k \in 1..Len(poly.shell) :
        Cross(poly.shell[i], poly.shell[j], poly.shell[k]) = 0

\* the exterior encloses nothing, or a hole retraces the exterior
NoInterior(poly) ==
    \/ Collapsed(poly)
    \/ \E i \in 1..Len(poly.holes) : RingKey(poly.holes[i]) = RingKey(poly.shell)

IsTriangle(ring) == Len(ring) = 4 /\ SignedArea2(ring) # 0

\* where p lies against the counter-clockwise triangle `shell`
StrictlyInside(p, shell) ==
    \A i \in 1..3 : Cross(shell[i], shell[i + 1], p) > 0

Outside(p, shell) ==
    \E i \in 1..3 : Cross(shell[i], shell[i + 1], p) < 0

\* poly.is_valid, for a freshly constructed and oriented polygon.  Decided
\* here: an exterior or hole of zero area, a hole retracing the exterior or
\* another hole, and a hole with a vertex outside a triangular exterior are
\* invalid; a triangle without holes, or with one triangular hole strictly
\* inside it, is valid.  Any other shape is decided by geometry this model
\* does not compute, and both answers are taken.
IsValidResults(poly) ==
    LET holes == poly.holes
        h == 1..Len(holes)
    IN IF \/ SignedArea2(poly.shell) = 0
          \/ \E i \in h : SignedArea2(holes[i]) = 0
          \/ \E i \in h : RingKey(holes[i]) = RingKey(poly.shell)
          \/ \E i, j \in h : i # j /\ RingKey(holes[i]) = RingKey(holes[j])
          \/ /\ IsTriangle(poly.shell)
             /\ \E i \in h : \E k \in 1..Len(holes[i]) :
                   Outside(holes[i][k], poly.shell)
       THEN {FALSE}
       ELSE IF /\ IsTriangle(poly.shell)
               /\ Len(holes) <= 1
               /\ \A i \in h :
                     /\ IsTriangle(holes[i])
                     /\ \A k \in 1..Len(holes[i]) :
                           StrictlyInside(holes[i][k], poly.shell)
            THEN {TRUE}
            ELSE BOOLEAN

\* make_valid(poly): the shapes the repair can hand back.  Its result is always
\* valid; a polygon without interior leaves no polygonal part (a point when
\* all its coordinates coincide, lines otherwise), any other polygon keeps at
\* least one.  The result is computed from the geometry, not from the vertex
\* the ring starts at, and the orientation of repaired rings is the library's.
MakeValidKinds(poly) ==
    IF \A i \in 1..Len(poly.shell) : poly.shell[i] = poly.shell[1]
    THEN {"point", "empty"}
    ELSE IF NoInterior(poly)
    THEN {"line", "empty", "collection_no_polygon"}
    ELSE {"polygon_ccw", "polygon_cw", "multipolygon", "collection_mixed"}

MakeValid(poly, kind) ==
    LET ring == Append(RingKey(poly.shell), RingKey(poly.shell)[1])
        ccw == PolygonOf(IF SignedArea2(ring) >= 0 THEN ring ELSE Reverse(ring),
                         <<>>)
        cw == PolygonOf(Reverse(ccw.shell), <<>>)
        multi == MultiPolygonOf(<<cw, ccw>>)
        line == LineStringOf(ring)
        point == PointOf(ring[1])
    IN CASE kind = "line" -> line
         [] kind = "point" -> point
         [] kind = "empty" -> EmptyPolygon
         [] kind = "collection_no_polygon" -> GeometryCollectionOf(<<line, point>>)
         [] kind = "polygon_ccw" -> ccw
         [] kind = "polygon_cw" -> cw
         [] kind = "multipolygon" -> multi
         [] kind = "collection_mixed" ->
                GeometryCollectionOf(<<line, multi, point, EmptyPolygon, cw>>)

\* MultiPolygon(polygons) for a non-empty list of non-empty geometries: a
\* leading MultiPolygon raises ValueError, any other non-Polygon member is
\* indexed as a (shell, holes) pair and raises TypeError.
MultiPolygonCtor(polys) ==
    IF polys[1].type = "MultiPolygon" THEN Raised("ValueError")
    ELSE IF \E i \in 1..Len(polys) : polys[i].type # "Polygon"
         THEN Raised("TypeError")
         ELSE MultiPolygonOf(polys)

\* The library is a function of the geometry: asked again about the same
\* rings it finds the same validity and repairs to the same kind of result.
\* lib_log holds its answers so far as [key, valid, kind].
Logged(log, key) == {e \in log : e.key = key}

LibIsValid(log, key, poly) ==
    IF Logged(log, key) # {} THEN {e.valid : e \in Logged(log, key)}
    ELSE IsValidResults(poly)

LibMakeValid(log, key, poly) ==
    IF Logged(log, key) # {} THEN {e.kind : e \in Logged(log, key)}
    ELSE MakeValidKinds(poly)

----------------------------------------------------------------------------
(* build_multipolygon *)

\* the members of a GeometryCollection kept without the emptiness test
ExtractedWithEmpty(gc) == SelectSeq(gc.geoms, IsPolygonal)

\* [geom for geom in poly.geoms
\*       if isinstance(geom, (Polygon, MultiPolygon)) and not geom.is_empty]
Extracted(gc) ==
    LET keep(g) == IsPolygonal(g) /\ ~is_empty(g) IN SelectSeq(gc.geoms, keep)

\* if poly.is_valid and not poly.is_empty: polygons.append(poly)
Appended(poly, valid) == IF valid /\ ~is_empty(poly) THEN <<poly>> ELSE <<>>

\* What one pass of the loop body computes for area `a` of `rows`.
StepOf(a, seqnos, coords, parts) ==
    [areanumber |-> a, seqnos |-> seqnos, coords |-> coords, none |-> parts.none,
     exterior |-> <<>>, holes |-> <<>>, poly |-> None, valid |-> FALSE,
     repairs |-> 0, fixed |-> None, added |-> <<>>, raised |-> FALSE]

BodyOutcomes(rows, a, tie, log) ==
    LET area_group == sort_values(InArea(rows, a), tie)
        coords == CoordsOf(area_group)
        geom_parts == split_geometry(coords)
        seqnos == [i \in 1..Len(area_group) |-> area_group[i].seqno]
        step0 == StepOf(a, seqnos, coords, geom_parts)
    IN IF geom_parts.none
       THEN {[step |-> step0, exc |-> None, log |-> log]}
       ELSE
       LET built == PolygonCtor(geom_parts.exterior, geom_parts.holes)
           step1 == [step0 EXCEPT !.exterior = geom_parts.exterior,
                                  !.holes = geom_parts.holes]
       IN IF built.type # "Polygon"
          THEN {[step |-> [step1 EXCEPT !.raised = TRUE],
                 exc |-> built, log |-> log]}
          ELSE
          LET poly == orient(built)
              key == PolygonKey(poly)
          IN
          UNION {
            IF valid
            THEN {[step |-> [step1 EXCEPT !.poly = poly, !.valid = TRUE,
                                          !.added = Appended(poly, TRUE)],
                   exc |-> None,
                   log |-> log \cup {[key |-> key, valid |-> TRUE,
                                      kind |-> "valid"]}]}
            ELSE {LET fixed == MakeValid(poly, kind)
                  IN [step |-> [step1 EXCEPT
                               !.poly = poly, !.repairs = 1, !.fixed = fixed,
                               !.added =
                                  IF fixed.type = "GeometryCollection"
                                  THEN Extracted(fixed)
                                  ELSE Appended(fixed, TRUE)],
                      exc |-> None,
                      log |-> log \cup {[key |-> key,
                                         valid |-> FALSE, kind |-> kind]}]
                  : kind \in LibMakeValid(log, key, poly)}
            : valid \in LibIsValid(log, key, poly)}

\* lines 112-116
ReturnValue(polys) ==
    IF polys = <<>> THEN None
    ELSE IF Len(polys) = 1 THEN polys[1]
    ELSE MultiPolygonCtor(polys)

NotCalled == [called |-> FALSE, pc |-> "", result |-> None, steps |-> <<>>]

\* line 82 and the groupby of line 84
Call ==
    /\ pc = "call"
    /\ groups' = GroupKeys(group_df)
    /\ polygons' = <<>>
    /\ steps' = <<>>
    /\ pc' = "loop"
    /\ UNCHANGED <<group_df, other_df, tie_break, result, lib_log, prev, split_out>>

\* one pass of the loop body, lines 85-110
Iterate ==
    /\ pc = "loop"
    /\ groups # <<>>
    /\ \E o \in BodyOutcomes(group_df, Head(groups), tie_break, lib_log) :
         /\ steps' = Append(steps, o.step)
         /\ lib_log' = o.log
         /\ IF o.step.raised
            THEN /\ pc' = "raised"
                 /\ result' = o.exc
                 /\ UNCHANGED <<groups, polygons>>
            ELSE /\ polygons' = polygons \o o.step.added
                 /\ groups' = Tail(groups)
                 /\ UNCHANGED <<pc, result>>
    /\ UNCHANGED <<group_df, other_df, tie_break, prev, split_out>>

\* lines 112-116
Return ==
    /\ pc = "loop"
    /\ groups = <<>>
    /\ result' = ReturnValue(polygons)
    /\ pc' = IF ReturnValue(polygons).type \in {"ValueError", "TypeError"}
             THEN "raised" ELSE "done"
    /\ UNCHANGED <<group_df, other_df, tie_break, groups, polygons, steps,
                   lib_log, prev, split_out>>

\* the caller invokes build_multipolygon again, on the same records
Reinvoke ==
    /\ pc \in {"done", "raised"}
    /\ ~prev.called
    /\ prev' = [called |-> TRUE, pc |-> pc, result |-> result, steps |-> steps]
    /\ group_df' = other_df
    /\ other_df' = group_df
    /\ pc' = "call"
    /\ groups' = <<>>
    /\ polygons' = <<>>
    /\ steps' = <<>>
    /\ result' = None
    /\ UNCHANGED <<tie_break, lib_log, split_out>>

Next == Call \/ Iterate \/ Return

NextOrder == Call \/ Iterate \/ Return \/ Reinvoke

\* a direct call split_geometry(df) on the rows as they stand
SplitGeometry ==
    /\ pc = "split"
    /\ split_out' = split_geometry(CoordsOf(group_df))
    /\ pc' = "split_done"
    /\ UNCHANGED <<group_df, other_df, tie_break, groups, polygons, result,
                   steps, lib_log, prev>>

NextSplit == SplitGeometry

----------------------------------------------------------------------------
(* The inputs *)

\* seqno counts up along the boundary trace
RowsOf(a, coords) ==
    [i \in 1..Len(coords) |->
        [areanumber |-> a, seqno |-> i, x |-> coords[i][1], y |-> coords[i][2]]]

Points == {<<0, 0>>, <<0, 1>>, <<1, 0>>, <<1, 1>>}

\* rings of the zone instances: a counter-clockwise triangle, the same
\* triangle clockwise, a smaller triangle strictly inside it, a two-point
\* ring, a three-point ring of two distinct points
TriangleCCW == <<(<<1, 1>>), (<<5, 1>>), (<<1, 5>>)>>
TriangleCW == <<(<<1, 5>>), (<<5, 1>>), (<<1, 1>>)>>
InnerTriangle == <<(<<2, 2>>), (<<3, 2>>), (<<2, 3>>)>>
ShortRing == <<(<<1, 1>>), (<<5, 1>>)>>
FlatRing == <<(<<1, 1>>), (<<1, 1>>), (<<5, 1>>)>>
RingCatalogue == {TriangleCCW, TriangleCW, InnerTriangle, ShortRing, FlatRing}

\* the rings of one area as its point list: (0,0) between rings, and a lone
\* (0,0) row for an area without rings
RECURSIVE JoinRings(_)
JoinRings(rings) ==
    IF rings = <<>> THEN <<Sentinel>>
    ELSE IF Len(rings) = 1 THEN rings[1]
    ELSE rings[1] \o <<Sentinel>> \o JoinRings(Tail(rings))

RECURSIVE ZoneRows(_, _)
ZoneRows(areas, a) ==
    IF areas = <<>> THEN <<>>
    ELSE RowsOf(a, JoinRings(Head(areas))) \o ZoneRows(Tail(areas), a + 1)

\* the ring lists of k areas holding at most n rings between them
RECURSIVE ZonesOf(_, _)
ZonesOf(k, n) ==
    IF k = 0 THEN {<<>>}
    ELSE UNION {{<<rings>> \o z : z \in ZonesOf(k - 1, n - Len(rings))} :
                   rings \in SeqsUpTo(RingCatalogue, n)}

Zones == UNION {ZonesOf(k, MaxRings) : k \in 1..MaxAreas}

InitCommon ==
    /\ groups = <<>>
    /\ polygons = <<>>
    /\ result = None
    /\ steps = <<>>
    /\ lib_log = {}
    /\ prev = NotCalled
    /\ split_out = NoParts

\* a zone of up to MaxAreas areas, its rows in tracing order or back to front
Init ==
    /\ \E z \in Zones : group_df \in {ZoneRows(z, 1), Reverse(ZoneRows(z, 1))}
    /\ other_df = group_df
    /\ tie_break = "keep"
    /\ pc = "call"
    /\ InitCommon

\* one area holding any point sequence of up to MaxLen points
InitArea ==
    /\ \E coords \in SeqsUpTo(Points, MaxLen) : group_df = RowsOf(1, coords)
    /\ other_df = group_df
    /\ tie_break = "keep"
    /\ pc = "call"
    /\ InitCommon

\* any point sequence of up to MaxLen points, handed to split_geometry
InitSplit ==
    /\ \E coords \in SeqsUpTo(Points, MaxLen) : group_df = RowsOf(1, coords)
    /\ other_df = group_df
    /\ tie_break = "keep"
    /\ pc = "split"
    /\ InitCommon

\* any rows of up to MaxRows records, seqno ties included, and the same
\* records listed by (areanumber, seqno, x, y) for the next invocation.
\* Area 1 traces the three corners under seqno 1..3; area 2 is a lone point.
OrderRecords ==
    [areanumber : {1}, seqno : {1, 2, 3}, x : {0, 1}, y : {1}]
        \cup [areanumber : {1}, seqno : {1, 2, 3}, x : {1}, y : {0}]
        \cup [areanumber : {2}, seqno : {1}, x : {0}, y : {1}]

RowKey(r) == ((r.areanumber * 4 + r.seqno) * 2 + r.x) * 2 + r.y

RECURSIVE Listed(_, _)
Listed(rows, keys) ==
    IF keys = <<>> THEN <<>>
    ELSE LET same(r) == RowKey(r) = Head(keys)
         IN SelectSeq(rows, same) \o Listed(rows, Tail(keys))

Canonical(rows) ==
    Listed(rows, SortedSeq({RowKey(rows[i]) : i \in 1..Len(rows)}))

InitOrder ==
    /\ group_df \in SeqsUpTo(OrderRecords, MaxRows)
    /\ other_df = Canonical(group_df)
    /\ tie_break \in TiePolicies
    /\ pc = "call"
    /\ InitCommon

Spec == Init /\ [][Next]_vars

SpecArea == InitArea /\ [][Next]_vars

SpecSplit == InitSplit /\ [][NextSplit]_vars

SpecOrder == InitOrder /\ [][NextOrder]_vars

----------------------------------------------------------------------------
(* What the claims speak about *)

Finished == pc \in {"done", "raised"}

NumAreas == Len(GroupKeys(group_df))

\* the loop visited every area and none of them raised
LoopCompleted == Finished /\ groups = <<>> /\ Len(steps) = NumAreas

\* The maximal runs of consecutive non-(0,0) points, stated by position.
RunStarts(coords) ==
    {i \in 1..Len(coords) :
        coords[i] # Sentinel /\ (i = 1 \/ coords[i - 1] = Sentinel)}

RunEnd(coords, i) ==
    CHOOSE j \in i..Len(coords) :
        /\ \A k \in i..j : coords[k] # Sentinel
        /\ j = Len(coords) \/ coords[j + 1] = Sentinel

MaximalRuns(coords) ==
    LET starts == SortedSeq(RunStarts(coords))
    IN [k \in 1..Len(starts) |->
            SubSeq(coords, starts[k], RunEnd(coords, starts[k]))]

WithoutSentinels(coords) ==
    LET real(p) == p # Sentinel IN SelectSeq(coords, real)

RingsOf(out) == IF out.none THEN <<>> ELSE <<out.exterior>> \o out.holes

AllAdded == Flatten([i \in 1..Len(steps) |-> steps[i].added])

\* the polygons of a collected geometry: itself, or its members
PolygonsIn(g) ==
    IF g.type = "Polygon" THEN {g}
    ELSE IF g.type = "MultiPolygon" THEN Range(g.geoms)
    ELSE {}

\* no two rows of one area share a seqno
DistinctSeqnos(rows) ==
    \A i, j \in 1..Len(rows) :
        (i # j /\ rows[i].areanumber = rows[j].areanumber)
            => rows[i].seqno # rows[j].seqno

----------------------------------------------------------------------------
(* C1 *)

\* C1: once every area has been visited, build_multipolygon returns None when
\* nothing was collected, the collected geometry itself when exactly one was
\* collected, and otherwise one multipolygon whose members are the collected
\* geometries in collection order (areas in ascending areanumber order).
C1_ReturnsCollected ==
    LoopCompleted =>
        /\ pc = "done"
        /\ polygons = AllAdded
        /\ \A i, j \in 1..Len(steps) :
              i < j => steps[i].areanumber < steps[j].areanumber
        /\ Len(polygons) = 0 => result = None
        /\ Len(polygons) = 1 => result = polygons[1]
        /\ Len(polygons) > 1 =>
              /\ result.type = "MultiPolygon"
              /\ result.geoms = polygons
              /\ Len(result.geoms) = Len(polygons)

----------------------------------------------------------------------------
(* C2 *)

\* C2: whatever the repair hands back, no point or line is ever collected and
\* the value returned is None, a polygon or a multipolygon.
C2_OnlyPolygonalResults ==
    /\ \A i \in 1..Len(polygons) : polygons[i].type \notin {"Point", "LineString"}
    /\ pc = "done" => result.type \in {"None", "Polygon", "MultiPolygon"}

----------------------------------------------------------------------------
(* C3 *)

\* C3: a zone whose only area holds fewer than 3 distinct points besides
\* (0,0) ends with build_multipolygon returning None, never with an exception.
C3_FewPointsGiveNone ==
    (/\ Finished
     /\ NumAreas = 1
     /\ Cardinality(Range(CoordsOf(group_df)) \ {Sentinel}) < 3)
        => pc = "done" /\ result = None

----------------------------------------------------------------------------
(* C4 *)

\* C4: in a zone of several areas, an area whose polygon cannot be constructed
\* contributes nothing and does not stop the others: the call still returns,
\* every area has been visited, and the collected geometries are those of the
\* other areas.
C4_FailedAreaIsSkipped ==
    (/\ Finished
     /\ NumAreas > 1
     /\ \E i \in 1..Len(steps) : steps[i].raised)
        => /\ pc = "done"
           /\ Len(steps) = NumAreas
           /\ polygons = AllAdded

----------------------------------------------------------------------------
(* C5 *)

\* C5: the rings split_geometry emits are exactly the maximal runs of
\* consecutive non-(0,0) points, in input order: none is empty, none holds
\* (0,0), together they are the input without its (0,0) points, and None is
\* returned exactly when the input has no point other than (0,0).
C5_RingsAreMaximalRuns ==
    pc = "split_done" =>
        LET coords == CoordsOf(group_df)
            rings == RingsOf(split_out)
        IN /\ rings = MaximalRuns(coords)
           /\ \A k \in 1..Len(rings) :
                 rings[k] # <<>> /\ Sentinel \notin Range(rings[k])
           /\ Flatten(rings) = WithoutSentinels(coords)
           /\ split_out.none <=> \A i \in 1..Len(coords) : coords[i] = Sentinel

\* a sequence led by (0,0) that still splits into two rings
C5_Witness ==
    /\ pc = "split_done"
    /\ Len(group_df) > 0
    /\ CoordsOf(group_df)[1] = Sentinel
    /\ Len(RingsOf(split_out)) = 2

----------------------------------------------------------------------------
(* C6 *)

\* C6 as stated: every point sequence without a (0,0) point, the empty one
\* included, splits into exactly one ring equal to the sequence.
C6_Original ==
    (pc = "split_done" /\ Sentinel \notin Range(CoordsOf(group_df))) =>
        /\ ~split_out.none
        /\ split_out.exterior = CoordsOf(group_df)
        /\ split_out.holes = <<>>

\* C6: every non-empty point sequence without a (0,0) point splits into
\* exactly one ring equal to the sequence (same points, same order); the empty
\* sequence gives None.
C6_OneRingWhenNoSentinel ==
    (pc = "split_done" /\ Sentinel \notin Range(CoordsOf(group_df))) =>
        IF group_df = <<>>
        THEN split_out.none
        ELSE /\ ~split_out.none
             /\ split_out.exterior = CoordsOf(group_df)
             /\ split_out.holes = <<>>

C6_Witness ==
    /\ pc = "split_done"
    /\ Len(group_df) >= 3
    /\ Sentinel \notin Range(CoordsOf(group_df))
    /\ split_out.exterior = CoordsOf(group_df)

----------------------------------------------------------------------------
(* C7 *)

SameOutcome == prev.pc = pc /\ prev.result = result

SeqnosAscending ==
    \A i \in 1..Len(steps) :
        \A j, k \in 1..Len(steps[i].seqnos) :
            j < k => steps[i].seqnos[j] <= steps[i].seqnos[k]

\* C7 as stated: for any two row orders of the same records the points of
\* each area are processed in ascending seqno order and the two invocations
\* end alike.
C7_Original ==
    /\ SeqnosAscending
    /\ (prev.called /\ Finished) => SameOutcome

\* C7: the points of each area are processed in ascending seqno order, and,
\* provided no two rows of one area share a seqno, any two row orders of the
\* same records (and a repeated invocation on the same rows) process the same
\* point sequences area by area and end with an equal result.
C7_OrderInvariant ==
    /\ SeqnosAscending
    /\ (prev.called /\ Finished /\ DistinctSeqnos(group_df)) =>
          /\ SameOutcome
          /\ prev.steps = steps

\* a polygon returned twice from rows given in two different orders
C7_Witness ==
    /\ prev.called
    /\ pc = "done"
    /\ DistinctSeqnos(group_df)
    /\ group_df # other_df
    /\ result.type = "Polygon"
    /\ prev.result = result

----------------------------------------------------------------------------
(* C8 *)

\* C8: for every area that yields a ring, the polygon is constructed with the
\* first ring (in seqno order) as exterior and every later ring, in order, as
\* a hole: the holes number one less than the rings, and the exterior of the
\* oriented polygon is the first ring, closed, in one direction or the other.
C8_FirstRingIsExterior ==
    \A i \in 1..Len(steps) :
        LET st == steps[i]
            runs == MaximalRuns(st.coords)
        IN /\ \A j \in 1..Len(st.seqnos) : st.seqnos[j] = j
           /\ ~st.none =>
                 /\ st.exterior = runs[1]
                 /\ st.holes = SubSeq(runs, 2, Len(runs))
                 /\ Len(st.holes) = Len(runs) - 1
                 /\ st.poly.type = "Polygon" =>
                       /\ Len(st.poly.holes) = Len(runs) - 1
                       /\ st.poly.shell \in {CloseRing(runs[1]),
                                             Reverse(CloseRing(runs[1]))}

\* a polygon constructed with two holes
C8_Witness ==
    \E i \in 1..Len(steps) :
        /\ steps[i].poly.type = "Polygon"
        /\ Len(steps[i].poly.holes) = 2
        /\ Len(MaximalRuns(steps[i].coords)) = 3

----------------------------------------------------------------------------
(* C9 *)

\* C9: every polygon collected for the zone, repaired or not, has a
\* counter-clockwise exterior (positive signed area).
C9_CollectedAreCounterClockwise ==
    \A i \in 1..Len(polygons) :
        \A g \in PolygonsIn(polygons[i]) : SignedArea2(g.shell) > 0

----------------------------------------------------------------------------
(* C10 *)

Survivors(gs) ==
    LET usable(g) ==
            \/ g.type = "Polygon" /\ g.shell # <<>>
            \/ g.type = "MultiPolygon" /\ g.geoms # <<>>
    IN SelectSeq(gs, usable)

\* C10: an invalid polygon is repaired exactly once and a valid one never; of
\* a mixed collection exactly the non-empty polygon and multipolygon members
\* are collected, in their order, and when none survives the area adds nothing
\* and the loop goes on to the next area.
C10_RepairOnceAndExtract ==
    /\ \A e \in lib_log : e.valid <=> e.kind = "valid"
    /\ \A i \in 1..Len(steps) :
          LET st == steps[i]
          IN /\ st.valid => st.repairs = 0 /\ st.fixed = None
             /\ st.poly = None => st.repairs = 0
             /\ (st.poly # None /\ ~st.valid) =>
                   st.repairs = 1 /\ st.fixed # None
             /\ st.fixed.type = "GeometryCollection" =>
                   /\ st.added = Survivors(st.fixed.geoms)
                   /\ ~st.raised
                   /\ i = Len(steps) =>
                         /\ Len(groups) = NumAreas - i
                         /\ pc = "raised" => groups = <<>>

\* a mixed collection of five members, two of them collected, followed by the
\* next area's pass
C10_Witness ==
    \E i \in 1..Len(steps) :
        /\ steps[i].fixed.type = "GeometryCollection"
        /\ Len(steps[i].fixed.geoms) = 5
        /\ Len(steps[i].added) = 2
        /\ i < Len(steps)

====
